---------------------------- MODULE Spec2Model ----------------------------
(***************************************************************************)
(* A model of nz_energy_dashboard.py: the Streamlit script that locates   *)
(* the latest Generation_MD CSV, downloads it, resolves its columns,      *)
(* aggregates generation by fuel, computes the renewable share and builds *)
(* the renewable-share time series.                                       *)
(*                                                                         *)
(* Text is a sequence of one-character strings, so that lower(),          *)
(* substring tests, numeric parsing and date parsing are computed the way *)
(* the code computes them.  A cell of a DataFrame is a record             *)
(* [k, n, d, s]: k is the kind of the value ("num", "str", "nan", "ts",   *)
(* "nat", "bool"), n/d its number (a day number for a timestamp) and s    *)
(* its text.                                                               *)
(***************************************************************************)
EXTENDS Integers, Sequences, FiniteSets, TLC

VARIABLES
    pc,            \* position of the script
    page_fetches,  \* requests.get calls on the EMI page
    file_fetches,  \* requests.get calls on the CSV url
    csv_url,       \* line 99
    csv,           \* the file as served: [header, rows] of text cells
    df,            \* line 107; process_generation_df works on this object
    agg,           \* line 108; compute_renewable_share works on this object
    meta,          \* line 108
    renew_share,   \* line 122, in hundredths of a percent
    pivot,         \* line 142, its index as the first column
    last_week,     \* line 151
    preview,       \* the frame shown on line 162
    ui,            \* what has been put on the page, in order
    fuel_name,     \* the argument of a direct call of is_renewable
    verdict        \* what that call returned

vars == <<pc, page_fetches, file_fetches, csv_url, csv, df, agg, meta,
          renew_share, pivot, last_week, preview, ui, fuel_name, verdict>>

(***************************************************************************)
(* Bounds of the model.                                                    *)
(***************************************************************************)
MaxRows == 2
MaxLinks == 2

(***************************************************************************)
(* Characters and text.                                                    *)
(***************************************************************************)
\* the characters used, in code-point order
Alphabet ==
    <<" ", "-", ".", "/", "0", "1", "2", "3", "4", "5", "6", "7", "8", "9", ":", "A", "B", "C", "D", "E", "F", "G", "H", "I", "J", "K", "L", "M", "N", "O", "P", "Q", "R", "S", "T", "U", "V", "W", "X", "Y", "Z", "_", "a", "b", "c", "d", "e", "f", "g", "h", "i", "j", "k", "l", "m", "n", "o", "p", "q", "r", "s", "t", "u", "v", "w", "x", "y", "z">>

UpperCase == <<"A", "B", "C", "D", "E", "F", "G", "H", "I", "J", "K", "L", "M", "N", "O", "P", "Q", "R", "S", "T", "U", "V", "W", "X", "Y", "Z">>
LowerCase == <<"a", "b", "c", "d", "e", "f", "g", "h", "i", "j", "k", "l", "m", "n", "o", "p", "q", "r", "s", "t", "u", "v", "w", "x", "y", "z">>
Digits == <<"0", "1", "2", "3", "4", "5", "6", "7", "8", "9">>

Ord(c) == CHOOSE i \in 1..Len(Alphabet) : Alphabet[i] = c

IsDigit(c) == \E i \in 1..10 : Digits[i] = c

DigitValue(c) == (CHOOSE i \in 1..10 : Digits[i] = c) - 1

LowerChar(c) ==
    IF \E i \in 1..26 : UpperCase[i] = c
    THEN LowerCase[CHOOSE i \in 1..26 : UpperCase[i] = c]
    ELSE c

\* str.lower()
lower(s) == [i \in 1..Len(s) |-> LowerChar(s[i])]

\* sub in s
Contains(sub, s) ==
    \E i \in 0..(Len(s) - Len(sub)) : SubSeq(s, i + 1, i + Len(sub)) = sub

\* s.startswith(p), s.endswith(p)
startswith(s, p) == Len(p) <= Len(s) /\ SubSeq(s, 1, Len(p)) = p
endswith(s, p) ==
    Len(p) <= Len(s) /\ SubSeq(s, Len(s) - Len(p) + 1, Len(s)) = p

\* s < t on Python strings: code-point order, a proper prefix first
RECURSIVE StrLess(_, _)
StrLess(s, t) ==
    IF t = <<>> THEN FALSE
    ELSE IF s = <<>> THEN TRUE
    ELSE IF s[1] = t[1] THEN StrLess(Tail(s), Tail(t))
    ELSE Ord(s[1]) < Ord(t[1])

\* all digits, at least one
IsNumeral(s) == Len(s) > 0 /\ \A i \in 1..Len(s) : IsDigit(s[i])

RECURSIVE NumeralValue(_)
NumeralValue(s) ==
    IF s = <<>> THEN 0
    ELSE 10 * NumeralValue(SubSeq(s, 1, Len(s) - 1)) + DigitValue(s[Len(s)])

(***************************************************************************)
(* Cells.                                                                  *)
(***************************************************************************)
Num(n) == [k |-> "num", n |-> n, d |-> 1, s |-> <<>>]
Str(s) == [k |-> "str", n |-> 0, d |-> 1, s |-> s]
NaN == [k |-> "nan", n |-> 0, d |-> 1, s |-> <<>>]
Ts(t) == [k |-> "ts", n |-> t, d |-> 1, s |-> <<>>]
NaT == [k |-> "nat", n |-> 0, d |-> 1, s |-> <<>>]
Bool(b) == [k |-> "bool", n |-> IF b THEN 1 ELSE 0, d |-> 1, s |-> <<>>]

RECURSIVE Gcd(_, _)
Gcd(a, b) == IF b = 0 THEN a ELSE Gcd(b, a % b)

\* the number n/d, d > 0, in lowest terms
Frac(n, d) == [k |-> "num", n |-> n \div Gcd(n, d), d |-> d \div Gcd(n, d),
               s |-> <<>>]

\* pandas.isna
isna(c) == c.k \in {"nan", "nat"}

(***************************************************************************)
(* Sequences.                                                              *)
(***************************************************************************)
Range(f) == {f[i] : i \in DOMAIN f}

RECURSIVE SumSeq(_)
SumSeq(q) == IF q = <<>> THEN 0 ELSE q[1] + SumSeq(Tail(q))

\* the members of the set of texts S, ascending
RECURSIVE SortedTexts(_)
SortedTexts(S) ==
    IF S = {} THEN <<>>
    ELSE LET m == CHOOSE x \in S : \A y \in S \ {x} : StrLess(x, y)
         IN  <<m>> \o SortedTexts(S \ {m})

\* the members of the set of integers S, ascending
RECURSIVE SortedInts(_)
SortedInts(S) ==
    IF S = {} THEN <<>>
    ELSE LET m == CHOOSE x \in S : \A y \in S : x <= y
         IN  <<m>> \o SortedInts(S \ {m})

(***************************************************************************)
(* A DataFrame: column names, the dtype of each column ("number",          *)
(* "object", "datetime", "bool") and the rows of cells.                    *)
(***************************************************************************)
None == <<>>   \* None, and like it falsy

EmptyFrame == [columns |-> <<>>, dtypes |-> <<>>, rows |-> <<>>]

\* meta before process_generation_df has returned
NoMeta == [ts_col |-> None, fuel_col |-> None, gen_col |-> None]

ColIndex(frame, name) ==
    CHOOSE j \in 1..Len(frame.columns) : frame.columns[j] = name

Column(frame, name) ==
    [i \in 1..Len(frame.rows) |-> frame.rows[i][ColIndex(frame, name)]]

\* frame[name] = cells, with the dtype the new values have
SetColumn(frame, name, cells, dtype) ==
    LET j == ColIndex(frame, name)
    IN  [frame EXCEPT
            !.dtypes = [@ EXCEPT ![j] = dtype],
            !.rows = [i \in 1..Len(frame.rows) |->
                         [frame.rows[i] EXCEPT ![j] = cells[i]]]]

(***************************************************************************)
(* download_generation_csv: pd.read_csv on the bytes of the file.  A       *)
(* column is numeric when the file has rows and every cell of the column   *)
(* is empty or a numeral; an empty cell is read as NaN.  The files served  *)
(* hold no other spelling of a missing value ("NA", "n/a", "null", ...)    *)
(* and no numbers other than unsigned integers.                            *)
(***************************************************************************)
ColumnIsNumeric(file, j) ==
    /\ Len(file.rows) > 0
    /\ \A i \in 1..Len(file.rows) :
           file.rows[i][j] = <<>> \/ IsNumeral(file.rows[i][j])

ReadCell(numeric, text) ==
    IF text = <<>> THEN NaN
    ELSE IF numeric THEN Num(NumeralValue(text))
    ELSE Str(text)

read_csv(file) ==
    [columns |-> file.header,
     dtypes |-> [j \in 1..Len(file.header) |->
                    IF ColumnIsNumeric(file, j) THEN "number" ELSE "object"],
     rows |-> [i \in 1..Len(file.rows) |->
                  [j \in 1..Len(file.header) |->
                      ReadCell(ColumnIsNumeric(file, j), file.rows[i][j])]]]

(***************************************************************************)
(* process_generation_df: the columns.                                     *)
(***************************************************************************)
possible_ts_cols(frame) ==
    SelectSeq(frame.columns,
              LAMBDA c : \/ Contains(<<"t", "i", "m", "e">>, lower(c))
                         \/ Contains(<<"d", "a", "t", "e">>, lower(c))
                         \/ Contains(<<"t", "r", "a", "d", "i", "n", "g">>, lower(c)))

\* computed on line 45 and not read again
possible_gen_cols(frame) ==
    SelectSeq(frame.columns,
              LAMBDA c : \/ Contains(<<"g", "e", "n", "e", "r", "a", "t", "i", "o", "n">>, lower(c))
                         \/ <<"g", "e", "n">> = lower(c)
                         \/ Contains(<<"m", "w">>, lower(c)))

possible_fuel_cols(frame) ==
    SelectSeq(frame.columns,
              LAMBDA c : \/ Contains(<<"f", "u", "e", "l">>, lower(c))
                         \/ Contains(<<"f", "u", "e", "l", "_", "t", "y", "p", "e">>, lower(c))
                         \/ Contains(<<"f", "u", "e", "l", "t", "y", "p", "e">>, lower(c)))

FirstOrNone(q) == IF q /= <<>> THEN q[1] ELSE None

\* the names tried on line 52, in that order
GEN_NAMES ==
    << <<"G", "e", "n", "e", "r", "a", "t", "i", "o", "n", "_", "M", "W", "h">>, <<"G", "e", "n", "e", "r", "a", "t", "i", "o", "n", "_", "k", "W", "h">>, <<"G", "e", "n", "e", "r", "a", "t", "i", "o", "n">>,
       <<"G", "E", "N", "E", "R", "A", "T", "I", "O", "N">>, <<"G", "e", "n", "e", "r", "a", "t", "i", "o", "n", "_", "M", "W">>, <<"G", "E", "N", "_", "M", "W">> >>

\* the loop of lines 52-55
NamedGenCol(frame) ==
    FirstOrNone(SelectSeq(GEN_NAMES, LAMBDA c : c \in Range(frame.columns)))

\* df.select_dtypes(include='number').columns.tolist()
NumericCols(frame) ==
    LET idx == SelectSeq([j \in 1..Len(frame.columns) |-> j],
                         LAMBDA j : frame.dtypes[j] = "number")
    IN  [i \in 1..Len(idx) |-> frame.columns[idx[i]]]

ResolveTs(frame) == FirstOrNone(possible_ts_cols(frame))

ResolveFuel(frame) == FirstOrNone(possible_fuel_cols(frame))

ResolveGen(frame) ==
    IF NamedGenCol(frame) /= None THEN NamedGenCol(frame)
    ELSE FirstOrNone(NumericCols(frame))

(***************************************************************************)
(* process_generation_df: the cleaning.                                    *)
(***************************************************************************)
IsLeap(y) == (y % 4 = 0 /\ y % 100 /= 0) \/ y % 400 = 0

DaysInMonth(y, m) ==
    IF m = 2 THEN (IF IsLeap(y) THEN 29 ELSE 28)
    ELSE IF m \in {4, 6, 9, 11} THEN 30 ELSE 31

RECURSIVE DaysBeforeMonth(_, _)
DaysBeforeMonth(y, m) ==
    IF m = 1 THEN 0 ELSE DaysBeforeMonth(y, m - 1) + DaysInMonth(y, m - 1)

\* YYYY-MM-DD naming a day of the calendar
IsIsoDate(s) ==
    /\ Len(s) = 10
    /\ s[5] = "-" /\ s[8] = "-"
    /\ \A i \in {1, 2, 3, 4, 6, 7, 9, 10} : IsDigit(s[i])
    /\ LET y == NumeralValue(SubSeq(s, 1, 4))
           m == NumeralValue(SubSeq(s, 6, 7))
           d == NumeralValue(SubSeq(s, 9, 10))
       IN  y >= 1 /\ m \in 1..12 /\ d \in 1..DaysInMonth(y, m)

\* the day number of a date (day 1 is 0001-01-01)
DateOrdinal(s) ==
    LET y == NumeralValue(SubSeq(s, 1, 4))
        m == NumeralValue(SubSeq(s, 6, 7))
        d == NumeralValue(SubSeq(s, 9, 10))
        p == y - 1
    IN  365 * p + (p \div 4) - (p \div 100) + (p \div 400)
          + DaysBeforeMonth(y, m) + d

\* pd.to_datetime(errors='coerce') on a cell of a text column
to_datetime(c) ==
    CASE c.k = "str" -> IF IsIsoDate(c.s) THEN Ts(DateOrdinal(c.s)) ELSE NaT
      [] c.k = "nan" -> NaT
      [] c.k \in {"ts", "nat"} -> c

\* pd.to_numeric(errors='coerce') on a cell
to_numeric(c) ==
    CASE c.k = "num" -> c
      [] c.k = "str" -> IF IsNumeral(c.s) THEN Num(NumeralValue(c.s)) ELSE NaN
      [] c.k = "nan" -> NaN

\* fillna0 left out: a failed parse stays NaN
fillna0_skipped(c) == c

\* .fillna(0)
fillna0(c) == IF isna(c) THEN Num(0) ELSE c

CleanQuantity(c) == fillna0(to_numeric(c))

\* lines 61-66 on the frame
Cleaned(frame, ts_col, gen_col) ==
    LET a == IF ts_col /= None
             THEN SetColumn(frame, ts_col,
                            [i \in 1..Len(frame.rows) |->
                                to_datetime(Column(frame, ts_col)[i])],
                            "datetime")
             ELSE frame
    IN  IF gen_col /= None
        THEN SetColumn(a, gen_col,
                       [i \in 1..Len(a.rows) |->
                           CleanQuantity(Column(a, gen_col)[i])],
                       "number")
        ELSE a

(***************************************************************************)
(* process_generation_df: the aggregate.                                   *)
(***************************************************************************)
\* the rows of a frame whose cell in column name is c
RowsWhere(frame, name, c) ==
    SelectSeq([i \in 1..Len(frame.rows) |-> i],
              LAMBDA i : Column(frame, name)[i] = c)

\* the sum of the numbers of column name over the rows idx
SumOver(frame, name, idx) ==
    SumSeq([i \in 1..Len(idx) |-> Column(frame, name)[idx[i]].n])

\* the group keys of groupby(name): the texts of the column, NaN left out
GroupKeys(frame, name) ==
    SortedTexts({c.s : c \in {x \in Range(Column(frame, name)) : ~isna(x)}})

\* df.groupby(fuel_col)[gen_col].sum().reset_index()
GroupBySum(frame, fuel_col, gen_col) ==
    LET keys == GroupKeys(frame, fuel_col)
    IN  [columns |-> <<fuel_col, gen_col>>,
         dtypes |-> <<frame.dtypes[ColIndex(frame, fuel_col)], "number">>,
         rows |-> [g \in 1..Len(keys) |->
                      <<Str(keys[g]),
                        Num(SumOver(frame, gen_col,
                                    RowsWhere(frame, fuel_col,
                                              Str(keys[g]))))>>]]

\* sort_values(by=<second column>, ascending=False): equal values keep
\* their order
RECURSIVE SortDescending(_)
SortDescending(rows) ==
    IF rows = <<>> THEN <<>>
    ELSE LET r == rows[Len(rows)]
             front == SortDescending(SubSeq(rows, 1, Len(rows) - 1))
             before == SelectSeq(front, LAMBDA x : x[2].n >= r[2].n)
             after == SelectSeq(front, LAMBDA x : x[2].n < r[2].n)
         IN  before \o <<r>> \o after

\* line 73-74
UnknownAggregate(frame, gen_col) ==
    [columns |-> << <<"F", "u", "e", "l", "T", "y", "p", "e">>, <<"G", "e", "n", "e", "r", "a", "t", "i", "o", "n">> >>,
     dtypes |-> <<"object", "number">>,
     rows |-> << <<Str(<<"u", "n", "k", "n", "o", "w", "n">>),
                   Num(IF gen_col /= None
                       THEN SumOver(frame, gen_col,
                                    [i \in 1..Len(frame.rows) |-> i])
                       ELSE 0)>> >>]

\* Aggregate without the else branch: nothing when a column is missing
AggregateOrNothing(frame, fuel_col, gen_col) ==
    IF fuel_col /= None /\ gen_col /= None
    THEN [GroupBySum(frame, fuel_col, gen_col) EXCEPT
             !.rows = SortDescending(@)]
    ELSE EmptyFrame

\* lines 67-74 on the cleaned frame
Aggregate(frame, fuel_col, gen_col) ==
    IF fuel_col /= None /\ gen_col /= None
    THEN [GroupBySum(frame, fuel_col, gen_col) EXCEPT
             !.rows = SortDescending(@)]
    ELSE UnknownAggregate(frame, gen_col)

\* line 69: reset_index() puts the group keys back as a column named
\* fuel_col next to the sums named gen_col, and raises ValueError when the
\* two names are the same
reset_index_raises(fuel_col, gen_col) ==
    fuel_col /= None /\ gen_col /= None /\ fuel_col = gen_col

\* what process_generation_df(frame) leaves in frame (df) and either
\* returns (agg, meta) or raises before binding anything
process_generation_df(frame) ==
    LET ts_col == ResolveTs(frame)
        fuel_col == ResolveFuel(frame)
        gen_col == ResolveGen(frame)
        clean == Cleaned(frame, ts_col, gen_col)
        raised == reset_index_raises(fuel_col, gen_col)
    IN  [df |-> clean,
         raised |-> raised,
         agg |-> IF raised THEN EmptyFrame
                 ELSE Aggregate(clean, fuel_col, gen_col),
         meta |-> IF raised THEN NoMeta
                  ELSE [ts_col |-> ts_col, fuel_col |-> fuel_col,
                        gen_col |-> gen_col]]

(***************************************************************************)
(* is_renewable and compute_renewable_share.                               *)
(***************************************************************************)
RENEWABLE_KEYWORDS ==
    << <<"h", "y", "d", "r", "o">>, <<"g", "e", "o">>, <<"w", "i", "n", "d">>, <<"s", "o", "l", "a", "r">>, <<"b", "i", "o", "m", "a", "s", "s">>, <<"b", "a", "t", "t", "e", "r", "y">> >>

\* is_renewable without lower()
is_renewable_case_sensitive(c) ==
    IF c.k /= "str" THEN FALSE
    ELSE \E i \in 1..Len(RENEWABLE_KEYWORDS) :
             Contains(RENEWABLE_KEYWORDS[i], c.s)

\* is_renewable of a cell: a text, or something that is no str
is_renewable(c) ==
    IF c.k /= "str" THEN FALSE
    ELSE \E i \in 1..Len(RENEWABLE_KEYWORDS) :
             Contains(RENEWABLE_KEYWORDS[i], lower(c.s))

\* num/den to the nearest integer, a tie to the even one
RoundHalfEven(num, den) ==
    LET q == num \div den
        r == num % den
    IN  IF 2 * r < den THEN q
        ELSE IF 2 * r > den THEN q + 1
        ELSE IF q % 2 = 0 THEN q ELSE q + 1

\* line 88: the frame with its is_renewable column
WithIsRenewable(frame) ==
    [columns |-> Append(frame.columns, <<"i", "s", "_", "r", "e", "n", "e", "w", "a", "b", "l", "e">>),
     dtypes |-> Append(frame.dtypes, "bool"),
     rows |-> [i \in 1..Len(frame.rows) |->
                  Append(frame.rows[i], Bool(is_renewable(frame.rows[i][1])))]]

\* lines 89-92 on the frame of line 88: the share, in hundredths
ShareOf(frame) ==
    LET total == SumSeq([i \in 1..Len(frame.rows) |-> frame.rows[i][2].n])
        renew == SumSeq([i \in 1..Len(frame.rows) |->
                            IF frame.rows[i][3] = Bool(TRUE)
                            THEN frame.rows[i][2].n ELSE 0])
    IN  IF total > 0 THEN RoundHalfEven(renew * 100 * 100, total) ELSE 0

compute_renewable_share(frame) == ShareOf(WithIsRenewable(frame))

(***************************************************************************)
(* The time series of lines 136-151.                                       *)
(***************************************************************************)
\* PivotRows with dropna=False on the index: NaT rows are grouped too
PivotRowsKeepingNaT(frame, ts, fuel) ==
    SelectSeq([i \in 1..Len(frame.rows) |-> i],
              LAMBDA i : ~isna(Column(frame, fuel)[i]))

\* the rows pivot_table groups: those with a timestamp and a fuel
PivotRows(frame, ts, fuel) ==
    SelectSeq([i \in 1..Len(frame.rows) |-> i],
              LAMBDA i : /\ ~isna(Column(frame, ts)[i])
                         /\ ~isna(Column(frame, fuel)[i]))

PivotIndex(frame, ts, fuel) ==
    LET idx == PivotRows(frame, ts, fuel)
    IN  SortedInts({Column(frame, ts)[idx[i]].n : i \in 1..Len(idx)})

PivotColumns(frame, ts, fuel) ==
    LET idx == PivotRows(frame, ts, fuel)
    IN  SortedTexts({Column(frame, fuel)[idx[i]].s : i \in 1..Len(idx)})

\* the sum of gen over the rows of timestamp t and fuel f; 0 when none
PivotCell(frame, ts, fuel, gen, t, f) ==
    LET idx == SelectSeq(PivotRows(frame, ts, fuel),
                         LAMBDA i : /\ Column(frame, ts)[i] = Ts(t)
                                    /\ Column(frame, fuel)[i] = Str(f))
    IN  SumOver(frame, gen, idx)

\* lines 142-143: the index, one column per fuel, and total
pivot_table(frame, ts, fuel, gen) ==
    LET index == PivotIndex(frame, ts, fuel)
        cols == PivotColumns(frame, ts, fuel)
        sums(t) == [j \in 1..Len(cols) |->
                       PivotCell(frame, ts, fuel, gen, t, cols[j])]
    IN  [columns |-> <<ts>> \o cols \o << <<"t", "o", "t", "a", "l">> >>,
         dtypes |-> <<"datetime">> \o [j \in 1..Len(cols) |-> "number"]
                       \o <<"number">>,
         rows |-> [r \in 1..Len(index) |->
                      <<Ts(index[r])>>
                        \o [j \in 1..Len(cols) |-> Num(sums(index[r])[j])]
                        \o <<Num(SumSeq(sums(index[r])))>>]]

\* line 145: the columns of the pivot that name a renewable fuel
renew_cols(p) ==
    SelectSeq(Tail(p.columns), LAMBDA c : is_renewable(Str(c)))

\* renew_sum / total * 100 on floats: NaN for 0/0
SharePct(renew_sum, total) ==
    IF total = 0 THEN NaN ELSE Frac(renew_sum * 100, total)

\* lines 147-148: the pivot with renew_sum and renew_share_pct
WithShare(p) ==
    LET rc == renew_cols(p)
        rsum(r) == SumSeq([j \in 1..Len(rc) |->
                              p.rows[r][ColIndex(p, rc[j])].n])
        total(r) == p.rows[r][ColIndex(p, <<"t", "o", "t", "a", "l">>)].n
    IN  [columns |-> p.columns \o << <<"r", "e", "n", "e", "w", "_", "s", "u", "m">>, <<"r", "e", "n", "e", "w", "_", "s", "h", "a", "r", "e", "_", "p", "c", "t">> >>,
         dtypes |-> p.dtypes \o <<"number", "number">>,
         rows |-> [r \in 1..Len(p.rows) |->
                      p.rows[r] \o <<Num(rsum(r)),
                                     SharePct(rsum(r), total(r))>>]]

LastWeekDays == 7

\* lines 150-151: pivot.loc[last_dt - 7 days:]
LastWeek(p) ==
    LET last_dt == p.rows[Len(p.rows)][1].n
    IN  [p EXCEPT !.rows = SelectSeq(@, LAMBDA r :
                               r[1].n >= last_dt - LastWeekDays)]

(***************************************************************************)
(* find_latest_generation_csv.  A page is the sequence of the href values  *)
(* of its links.                                                           *)
(***************************************************************************)
EMI_GEN_PAGE ==
    <<"h", "t", "t", "p", "s", ":", "/", "/", "w", "w", "w", ".", "e", "m", "i", ".", "e", "a", ".", "g", "o", "v", "t", ".", "n", "z", "/", "W", "h", "o", "l", "e", "s", "a", "l", "e", "/", "D", "a", "t", "a", "s", "e", "t", "s", "/", "G", "e", "n", "e", "r", "a", "t", "i", "o", "n", "/", "G", "e", "n", "e", "r", "a", "t", "i", "o", "n", "_", "M", "D">>

\* the place of the first "/" of url after position from; 0 when none
FirstSlashAfter(url, from) ==
    IF \E i \in (from + 1)..Len(url) : url[i] = "/"
    THEN CHOOSE i \in (from + 1)..Len(url) :
             url[i] = "/" /\ \A j \in (from + 1)..(i - 1) : url[j] /= "/"
    ELSE 0

\* scheme://host of an absolute url
Origin(url) ==
    LET a == FirstSlashAfter(url, 0)
        b == FirstSlashAfter(url, a + 1)
    IN  IF b = 0 THEN url ELSE SubSeq(url, 1, b - 1)

\* the url up to its last "/"
Directory(url) ==
    LET last == CHOOSE i \in 1..Len(url) :
                    url[i] = "/" /\ \A j \in (i + 1)..Len(url) : url[j] /= "/"
    IN  SubSeq(url, 1, last)

\* requests.compat.urljoin(base, href) for a path that has no dot segments
urljoin(base, href) ==
    IF startswith(href, <<"/">>) THEN Origin(base) \o href
    ELSE Directory(base) \o href

\* lines 21-29
csv_links(page_url, page) ==
    LET hits == SelectSeq(page, LAMBDA href :
                    endswith(lower(href), <<"_", "g", "e", "n", "e", "r", "a", "t", "i", "o", "n", "_", "m", "d", ".", "c", "s", "v">>))
    IN  [i \in 1..Len(hits) |->
            IF startswith(hits[i], <<"h", "t", "t", "p">>) THEN hits[i]
            ELSE urljoin(page_url, hits[i])]

\* line 31
find_latest_generation_csv(page_url, page) ==
    FirstOrNone(csv_links(page_url, page))

(***************************************************************************)
(* What the network may serve.                                             *)
(***************************************************************************)
Hrefs ==
    { <<"/", "D", "a", "t", "a", "s", "e", "t", "s", "/", "2", "0", "2", "4", "_", "G", "e", "n", "e", "r", "a", "t", "i", "o", "n", "_", "M", "D", ".", "c", "s", "v">>,
      <<"h", "t", "t", "p", "s", ":", "/", "/", "w", "w", "w", ".", "e", "m", "i", ".", "e", "a", ".", "g", "o", "v", "t", ".", "n", "z", "/", "D", "a", "t", "a", "s", "e", "t", "s", "/", "2", "0", "2", "4", "_", "G", "e", "n", "e", "r", "a", "t", "i", "o", "n", "_", "M", "D", ".", "c", "s", "v">>,
      <<"/", "W", "h", "o", "l", "e", "s", "a", "l", "e", "/", "R", "e", "p", "o", "r", "t", "s">> }

RECURSIVE SeqsUpTo(_, _)
SeqsUpTo(S, n) ==
    IF n = 0 THEN {<<>>}
    ELSE SeqsUpTo(S, n - 1)
           \cup {Append(q, x) : q \in {p \in SeqsUpTo(S, n - 1) :
                                          Len(p) = n - 1}, x \in S}

Pages == SeqsUpTo(Hrefs, MaxLinks)

DateTexts == { <<"2", "0", "2", "4", "-", "0", "1", "-", "0", "1">>, <<"2", "0", "2", "4", "-", "0", "1", "-", "0", "9">>, <<"b", "a", "d">> }
FewDateTexts == { <<"2", "0", "2", "4", "-", "0", "1", "-", "0", "1">>, <<"b", "a", "d">> }
FuelTexts == { <<"H", "y", "d", "r", "o">>, <<"G", "a", "s">>, <<>> }
NamedFuelTexts == { <<"H", "y", "d", "r", "o">>, <<"G", "a", "s">> }
QuantityTexts == { <<"1", "0", "0">>, <<"5", "0">>, <<"a", "b", "c">>, <<>> }
FilledQuantityTexts == { <<"1", "0", "0">>, <<"5", "0">>, <<"a", "b", "c">> }
FewQuantityTexts == { <<"1", "0", "0">>, <<"a", "b", "c">>, <<>> }
PeriodTexts == { <<"1">> }
OtherQuantityTexts == { <<"7">> }
StationTexts == { <<"H", "L", "Y">> }
BlankableDateTexts == { <<"2", "0", "2", "4", "-", "0", "1", "-", "0", "1">>, <<>> }
OneFuelTexts == { <<"H", "y", "d", "r", "o">> }
OneQuantityTexts == { <<"1", "0", "0">> }

Col(name, cells) == [name |-> name, cells |-> cells]

\* the layouts of the files: each column's name and the texts its cells take
Layouts ==
    { << Col(<<"d", "a", "t", "e">>, FewDateTexts), Col(<<"p", "e", "r", "i", "o", "d">>, PeriodTexts),
         Col(<<"f", "u", "e", "l">>, NamedFuelTexts), Col(<<"m", "w">>, FilledQuantityTexts) >>,
      << Col(<<"T", "r", "a", "d", "i", "n", "g", "_", "d", "a", "t", "e">>, DateTexts), Col(<<"F", "u", "e", "l", "_", "C", "o", "d", "e">>, FuelTexts),
         Col(<<"G", "e", "n", "e", "r", "a", "t", "i", "o", "n", "_", "M", "W", "h">>, FewQuantityTexts) >>,
      << Col(<<"d", "a", "t", "e">>, FewDateTexts), Col(<<"f", "u", "e", "l">>, FuelTexts),
         Col(<<"m", "w">>, FewQuantityTexts) >>,
      << Col(<<"F", "u", "e", "l">>, FuelTexts), Col(<<"G", "e", "n", "e", "r", "a", "t", "i", "o", "n">>, QuantityTexts) >>,
      << Col(<<"d", "a", "t", "e">>, DateTexts), Col(<<"G", "e", "n", "e", "r", "a", "t", "i", "o", "n">>, OtherQuantityTexts),
         Col(<<"G", "e", "n", "e", "r", "a", "t", "i", "o", "n", "_", "M", "W", "h">>, QuantityTexts) >>,
      << Col(<<"S", "t", "a", "t", "i", "o", "n">>, StationTexts) >>,
      << Col(<<"F", "u", "e", "l">>, FuelTexts), Col(<<"m", "w">>, FewQuantityTexts) >>,
      << Col(<<"T", "r", "a", "d", "i", "n", "g", "_", "d", "a", "t", "e">>, BlankableDateTexts),
         Col(<<"F", "u", "e", "l", "_", "C", "o", "d", "e">>, OneFuelTexts),
         Col(<<"G", "e", "n", "e", "r", "a", "t", "i", "o", "n", "_", "M", "W", "h">>, OneQuantityTexts) >> }

RECURSIVE RowsOf(_)
RowsOf(layout) ==
    IF layout = <<>> THEN {<<>>}
    ELSE {<<c>> \o r : c \in layout[1].cells, r \in RowsOf(Tail(layout))}

\* the file of a layout with the given rows
FileOf(layout, rows) ==
    [header |-> [j \in 1..Len(layout) |-> layout[j].name], rows |-> rows]

\* the identifiers is_renewable is called on directly
Prefixes == { <<>>, <<"N", "-">> }
Stems ==
    { <<"h", "y", "d", "r", "o">>, <<"H", "y", "d", "r", "o">>, <<"H", "Y", "D", "R", "O">>, <<"h", "y", "d", "r">>, <<"w", "i", "n", "d">>, <<"W", "i", "n", "d">>,
      <<"s", "o", "l", "a", "r">>, <<"S", "o", "l", "a", "r">>, <<"g", "e", "o", "t", "h", "e", "r", "m", "a", "l">>, <<"G", "e", "o", "t", "h", "e", "r", "m", "a", "l">>, <<"g", "e", "o">>,
      <<"G", "e", "o">>, <<"g", "e">>, <<"b", "i", "o", "m", "a", "s", "s">>, <<"B", "i", "o", "m", "a", "s", "s">>, <<"b", "a", "t", "t", "e", "r", "y">>, <<"B", "a", "t", "t", "e", "r", "y">>,
      <<"b", "a", "t">>, <<"g", "a", "s">>, <<"G", "A", "S">>, <<"c", "o", "a", "l">>, <<"d", "i", "e", "s", "e", "l">>, <<"u", "n", "k", "n", "o", "w", "n">>, <<>> }
Suffixes == { <<>>, <<"-", "N", "o", "r", "t", "h">>, <<"_", "2">>, <<"1">> }

FuelIdentifiers ==
    {Str(p \o m \o s) : p \in Prefixes, m \in Stems, s \in Suffixes}
      \cup {NaN, Num(0), Num(7), Bool(TRUE)}

(***************************************************************************)
(* The script.                                                             *)
(***************************************************************************)
EmptyFile == [header |-> <<>>, rows |-> <<>>]

Init ==
    /\ pc = "locate"
    /\ page_fetches = 0
    /\ file_fetches = 0
    /\ csv_url = None
    /\ csv = EmptyFile
    /\ df = EmptyFrame
    /\ agg = EmptyFrame
    /\ meta = NoMeta
    /\ renew_share = 0
    /\ pivot = EmptyFrame
    /\ last_week = EmptyFrame
    /\ preview = EmptyFrame
    /\ ui = <<>>
    /\ fuel_name = NaN
    /\ verdict = "none"

\* line 99: requests.get raises; nothing catches it
LocateRaises ==
    /\ pc = "locate"
    /\ page_fetches' = page_fetches + 1
    /\ ui' = Append(ui, "exception")
    /\ pc' = "crashed"
    /\ UNCHANGED <<file_fetches, csv_url, csv, df, agg, meta, renew_share,
                   pivot, last_week, preview, fuel_name, verdict>>

\* lines 99-103
Locate ==
    /\ pc = "locate"
    /\ page_fetches' = page_fetches + 1
    /\ \E page \in Pages :
         /\ csv_url' = find_latest_generation_csv(EMI_GEN_PAGE, page)
         /\ IF csv_url' = None
            THEN ui' = Append(ui, "error") /\ pc' = "stopped"
            ELSE ui' = Append(ui, "write") /\ pc' = "download"
    /\ UNCHANGED <<file_fetches, csv, df, agg, meta, renew_share, pivot,
                   last_week, preview, fuel_name, verdict>>

\* DownloadRaises without st.stop(): the script goes on after the error
DownloadRaisesNoStop ==
    /\ pc = "download"
    /\ file_fetches' = file_fetches + 1
    /\ ui' = Append(ui, "error")
    /\ pc' = "process"
    /\ UNCHANGED <<page_fetches, csv_url, csv, df, agg, meta, renew_share,
                   pivot, last_week, preview, fuel_name, verdict>>

\* lines 107, 109-111: the fetch or the parse raises
DownloadRaises ==
    /\ pc = "download"
    /\ file_fetches' = file_fetches + 1
    /\ ui' = Append(ui, "error")
    /\ pc' = "stopped"
    /\ UNCHANGED <<page_fetches, csv_url, csv, df, agg, meta, renew_share,
                   pivot, last_week, preview, fuel_name, verdict>>

\* line 107
Download ==
    /\ pc = "download"
    /\ file_fetches' = file_fetches + 1
    /\ \E layout \in Layouts, n \in 0..MaxRows :
         \E rows \in [1..n -> RowsOf(layout)] :
            /\ csv' = FileOf(layout, rows)
            /\ df' = read_csv(csv')
    /\ pc' = "process"
    /\ UNCHANGED <<page_fetches, csv_url, agg, meta, renew_share, pivot,
                   last_week, preview, ui, fuel_name, verdict>>

\* lines 108-111: process_generation_df raises at line 69, after lines 63
\* and 66 have written to df; st.error and st.stop end the run
ProcessRaises ==
    /\ pc = "process"
    /\ LET out == process_generation_df(df)
       IN  out.raised /\ df' = out.df
    /\ ui' = Append(ui, "error")
    /\ pc' = "stopped"
    /\ UNCHANGED <<page_fetches, file_fetches, csv_url, csv, agg, meta,
                   renew_share, pivot, last_week, preview, fuel_name,
                   verdict>>

\* line 108
Process ==
    /\ pc = "process"
    /\ LET out == process_generation_df(df)
       IN  ~out.raised /\ agg' = out.agg /\ df' = out.df /\ meta' = out.meta
    /\ pc' = "fuel_mix"
    /\ UNCHANGED <<page_fetches, file_fetches, csv_url, csv, renew_share,
                   pivot, last_week, preview, ui, fuel_name, verdict>>

TipHigh == 70
TipMid == 45

\* lines 126-131, on hundredths
Tip(share) ==
    IF share >= TipHigh * 100 THEN "success"
    ELSE IF share >= TipMid * 100 THEN "info"
    ELSE "warning"

\* lines 114-133
FuelMix ==
    /\ pc = "fuel_mix"
    /\ IF agg.columns /= <<>> /\ agg.rows /= <<>>
       THEN /\ renew_share' = compute_renewable_share(agg)
            /\ agg' = WithIsRenewable(agg)
            /\ ui' = ui \o <<"subheader", "pie", "metric", Tip(renew_share')>>
       ELSE /\ ui' = Append(ui, "warning")
            /\ UNCHANGED <<renew_share, agg>>
    /\ pc' = "time_series"
    /\ UNCHANGED <<page_fetches, file_fetches, csv_url, csv, df, meta, pivot,
                   last_week, preview, fuel_name, verdict>>

\* lines 136-158
TimeSeries ==
    /\ pc = "time_series"
    /\ IF meta.ts_col /= None /\ meta.fuel_col /= None /\ meta.gen_col /= None
       THEN LET p == pivot_table(df, meta.ts_col, meta.fuel_col, meta.gen_col)
            IN  IF renew_cols(p) /= <<>>
                THEN /\ pivot' = WithShare(p)
                     /\ last_week' = LastWeek(pivot')
                     /\ ui' = ui \o <<"subheader", "line">>
                ELSE /\ pivot' = p
                     /\ ui' = Append(ui, "info")
                     /\ UNCHANGED last_week
       ELSE /\ ui' = Append(ui, "info")
            /\ UNCHANGED <<pivot, last_week>>
    /\ pc' = "preview"
    /\ UNCHANGED <<page_fetches, file_fetches, csv_url, csv, df, agg, meta,
                   renew_share, preview, fuel_name, verdict>>

HeadRows == 10

\* df.head(10)
head(frame) ==
    [frame EXCEPT !.rows = SubSeq(@, 1, IF Len(@) < HeadRows
                                        THEN Len(@) ELSE HeadRows)]

\* lines 161-162
Preview ==
    /\ pc = "preview"
    /\ preview' = head(df)
    /\ ui' = ui \o <<"subheader", "dataframe">>
    /\ pc' = "done"
    /\ UNCHANGED <<page_fetches, file_fetches, csv_url, csv, df, agg, meta,
                   renew_share, pivot, last_week, fuel_name, verdict>>

Next ==
    \/ LocateRaises
    \/ Locate
    \/ DownloadRaises
    \/ Download
    \/ ProcessRaises
    \/ Process
    \/ FuelMix
    \/ TimeSeries
    \/ Preview

Spec == Init /\ [][Next]_vars

(***************************************************************************)
(* is_renewable called on one identifier.                                  *)
(***************************************************************************)
ClassifyInit ==
    /\ pc = "classify"
    /\ fuel_name \in FuelIdentifiers
    /\ verdict = "none"
    /\ page_fetches = 0
    /\ file_fetches = 0
    /\ csv_url = None
    /\ csv = EmptyFile
    /\ df = EmptyFrame
    /\ agg = EmptyFrame
    /\ meta = NoMeta
    /\ renew_share = 0
    /\ pivot = EmptyFrame
    /\ last_week = EmptyFrame
    /\ preview = EmptyFrame
    /\ ui = <<>>

\* lines 81-85
Classify ==
    /\ pc = "classify"
    /\ verdict' = IF is_renewable(fuel_name) THEN "True" ELSE "False"
    /\ pc' = "classified"
    /\ UNCHANGED <<page_fetches, file_fetches, csv_url, csv, df, agg, meta,
                   renew_share, pivot, last_week, preview, ui, fuel_name>>

ClassifyNext == Classify

ClassifySpec == ClassifyInit /\ [][ClassifyNext]_vars


(***************************************************************************)
(* What the properties below read off a state.                             *)
(***************************************************************************)
AfterProcess == {"fuel_mix", "time_series", "preview", "done"}
AfterFuelMix == {"time_series", "preview", "done"}
AfterTimeSeries == {"preview", "done"}
Failed == {"stopped", "crashed"}
ErrorKinds == {"error", "exception"}

Shown(kind) == \E i \in 1..Len(ui) : ui[i] = kind

\* the place of a column in the file as served
FileCol(name) == CHOOSE j \in 1..Len(csv.header) : csv.header[j] = name

\* the quantity a cell text stands for: its number, 0 when it is none
ExpectedQuantity(text) == IF IsNumeral(text) THEN NumeralValue(text) ELSE 0

AllResolved ==
    meta.ts_col /= None /\ meta.fuel_col /= None /\ meta.gen_col /= None

HasShareColumn == Len(pivot.columns) >= 2
                    /\ pivot.columns[Len(pivot.columns)] = <<"r", "e", "n", "e", "w", "_", "s", "h", "a", "r", "e", "_", "p", "c", "t">>

\* C1: every renewable share the program computes is exactly 0 when its
\* total is 0, and is never NaN: the metric of compute_renewable_share and
\* the renew_share_pct of every row of the time-series pivot.
C1_ShareIsZeroOnZeroTotal ==
    /\ (Shown("metric")
          /\ SumSeq([i \in 1..Len(agg.rows) |-> agg.rows[i][2].n]) = 0)
         => renew_share = 0
    /\ (pc \in AfterTimeSeries /\ HasShareColumn)
         => \A r \in 1..Len(pivot.rows) :
               LET row == pivot.rows[r]
                   total == row[ColIndex(pivot, <<"t", "o", "t", "a", "l">>)]
                   share == row[Len(row)]
               IN  /\ ~isna(share)
                   /\ total.n = 0 => share = Num(0)

\* the table of the end-to-end scenario
ScenarioFile ==
    [header |-> << <<"d", "a", "t", "e">>, <<"p", "e", "r", "i", "o", "d">>, <<"f", "u", "e", "l">>, <<"m", "w">> >>,
     rows |-> << << <<"2", "0", "2", "4", "-", "0", "1", "-", "0", "1">>, <<"1">>, <<"H", "y", "d", "r", "o">>, <<"1", "0", "0">> >>,
                 << <<"2", "0", "2", "4", "-", "0", "1", "-", "0", "1">>, <<"1">>, <<"G", "a", "s">>, <<"5", "0">> >> >>]

\* C2: for the table date, period, fuel, mw with the rows
\* (2024-01-01, 1, Hydro, 100) and (2024-01-01, 1, Gas, 50) the run ends
\* with one timestamp row: Hydro 100, Gas 50, total 150, renewable sum 100
\* and a renewable share that rounds to 66.67.
C2_ScenarioYieldsTwoThirds ==
    (pc = "done" /\ csv = ScenarioFile)
      => /\ pivot.columns = << <<"d", "a", "t", "e">>, <<"G", "a", "s">>, <<"H", "y", "d", "r", "o">>, <<"t", "o", "t", "a", "l">>,
                               <<"r", "e", "n", "e", "w", "_", "s", "u", "m">>, <<"r", "e", "n", "e", "w", "_", "s", "h", "a", "r", "e", "_", "p", "c", "t">> >>
         /\ Len(pivot.rows) = 1
         /\ pivot.rows[1][1] = Ts(DateOrdinal(<<"2", "0", "2", "4", "-", "0", "1", "-", "0", "1">>))
         /\ pivot.rows[1][2] = Num(50)
         /\ pivot.rows[1][3] = Num(100)
         /\ pivot.rows[1][4] = Num(150)
         /\ pivot.rows[1][5] = Num(100)
         /\ RoundHalfEven(pivot.rows[1][6].n * 100, pivot.rows[1][6].d) = 6667
         /\ renew_share = 6667

Unresolved ==
    meta.ts_col = None \/ meta.fuel_col = None \/ meta.gen_col = None

\* C3 as stated: when a required column role is unresolved the run is
\* fatal: an error is reported and no aggregate chart, share metric or
\* time-series chart is produced.
C3_UnresolvedRoleIsFatal ==
    (pc \in AfterTimeSeries /\ Unresolved)
      => /\ \E i \in 1..Len(ui) : ui[i] \in ErrorKinds
         /\ ~Shown("pie") /\ ~Shown("metric") /\ ~Shown("line")

\* the roles the columns of the served table resolve to
FileRoles ==
    LET raw == read_csv(csv)
    IN  [ts_col |-> ResolveTs(raw), fuel_col |-> ResolveFuel(raw),
         gen_col |-> ResolveGen(raw)]

\* a file was served and line 108 is behind the run, returned or raised
Processed == csv /= EmptyFile /\ pc \notin {"locate", "download", "process"}

\* C3 as amended: an unresolved column role is not fatal by itself.  The
\* run fails only when the fuel column is also the quantity column (a fuel
\* column read as numeric and taken by the numeric fallback): then line 69
\* raises and the run ends with one error and nothing rendered.  In every
\* other case no error is reported.  With the fuel or the quantity column
\* unresolved the aggregate is the one placeholder row ("unknown", the sum
\* of the coerced quantity column, 0 when there is none), and the fuel-mix
\* chart and a share of 0 are shown; with only the timestamp unresolved the
\* aggregate has one row per fuel with the sum of its rows' coerced
\* quantities, and is shown when it has rows.  The time-series chart is
\* never produced; an info notice is.
C3_UnresolvedRoleStillRenders ==
    Processed
      => LET roles == FileRoles
             n == Len(csv.rows)
         IN  IF roles.ts_col /= None /\ roles.fuel_col /= None
                  /\ roles.gen_col /= None
             THEN TRUE
             ELSE IF roles.fuel_col /= None /\ roles.fuel_col = roles.gen_col
             THEN /\ pc = "stopped"
                  /\ ui = <<"write", "error">>
                  /\ agg = EmptyFrame /\ pivot = EmptyFrame
                  /\ last_week = EmptyFrame /\ preview = EmptyFrame
             ELSE /\ pc \in AfterProcess
                  /\ \A i \in 1..Len(ui) : ui[i] \notin ErrorKinds
                  /\ meta = roles
                  /\ IF roles.fuel_col = None \/ roles.gen_col = None
                     THEN /\ Len(agg.rows) = 1
                          /\ agg.rows[1][1] = Str(<<"u", "n", "k", "n", "o", "w", "n">>)
                          /\ agg.rows[1][2] =
                               Num(IF roles.gen_col = None THEN 0
                                   ELSE SumSeq([j \in 1..n |->
                                          ExpectedQuantity(
                                            csv.rows[j][FileCol(roles.gen_col)])]))
                          /\ pc \in AfterFuelMix
                               => /\ Shown("pie") /\ Shown("metric")
                                  /\ renew_share = 0
                     ELSE LET f == FileCol(roles.fuel_col)
                              g == FileCol(roles.gen_col)
                              qty == [j \in 1..n |->
                                        ExpectedQuantity(csv.rows[j][g])]
                              fuels == {csv.rows[j][f] : j \in 1..n} \ {<<>>}
                          IN  /\ Len(agg.rows) = Cardinality(fuels)
                              /\ \A x \in fuels :
                                    \E r \in 1..Len(agg.rows) :
                                       /\ agg.rows[r][1] = Str(x)
                                       /\ agg.rows[r][2] =
                                            Num(SumSeq([j \in 1..n |->
                                                   IF csv.rows[j][f] = x
                                                   THEN qty[j] ELSE 0]))
                              /\ pc \in AfterFuelMix
                                   => /\ Shown("pie") <=> fuels /= {}
                                      /\ Shown("metric") <=> fuels /= {}
                  /\ pc \in AfterTimeSeries
                       => /\ ~Shown("line")
                          /\ Shown("info")
                          /\ pivot = EmptyFrame

\* C3's case: the fuel column is missing and the placeholder row carries the
\* sum of the quantity column into the fuel-mix chart.
C3_Witness ==
    /\ pc = "done"
    /\ meta.fuel_col = None /\ meta.gen_col /= None
    /\ agg.rows[1][2].n > 0
    /\ Shown("pie")

\* C4: when link discovery finds no link, or the page fetch or the file
\* fetch or parse raises, the run ends with exactly one error message, each
\* fetch was attempted at most once, and nothing of the later steps exists:
\* no aggregate, no chart, metric, time series or preview after the error.
C4_FailureEndsTheRun ==
    /\ page_fetches <= 1 /\ file_fetches <= 1
    /\ \A i \in 1..Len(ui) :
          ui[i] \in ErrorKinds
            => /\ i = Len(ui)
               /\ pc \in Failed
               /\ \A j \in 1..(i - 1) : ui[j] = "write"
    /\ pc \in Failed
         => /\ Len(ui) >= 1 /\ ui[Len(ui)] \in ErrorKinds
            /\ agg = EmptyFrame /\ pivot = EmptyFrame
            /\ last_week = EmptyFrame /\ preview = EmptyFrame
            /\ meta = NoMeta
    /\ (pc /= "locate" /\ csv_url = None) => pc \in Failed
    /\ (pc \notin {"locate", "download"} /\ csv = EmptyFile /\ df = EmptyFrame)
         => pc \in Failed

\* C4's case: the file fetch raised after the link was found.
C4_Witness ==
    /\ pc = "stopped"
    /\ page_fetches = 1 /\ file_fetches = 1
    /\ csv = EmptyFile /\ df = EmptyFrame
    /\ ui = <<"write", "error">>

ClaimedTokens ==
    { <<"h", "y", "d", "r", "o">>, <<"w", "i", "n", "d">>, <<"s", "o", "l", "a", "r">>, <<"g", "e", "o", "t", "h", "e", "r", "m", "a", "l">>, <<"b", "i", "o", "m", "a", "s", "s">>,
      <<"b", "a", "t", "t", "e", "r", "y">> }

CodeTokens ==
    { <<"h", "y", "d", "r", "o">>, <<"g", "e", "o">>, <<"w", "i", "n", "d">>, <<"s", "o", "l", "a", "r">>, <<"b", "i", "o", "m", "a", "s", "s">>, <<"b", "a", "t", "t", "e", "r", "y">> }

ContainsOneOf(tokens, c) ==
    c.k = "str" /\ \E t \in tokens : Contains(t, lower(c.s))

\* C6 as stated: an identifier is Renewable exactly when it is a text
\* whose lowercased form contains one of hydro, wind, solar, geothermal,
\* biomass, battery.
C6_RenewableIffClaimedToken ==
    pc = "classified"
      => (verdict = "True" <=> ContainsOneOf(ClaimedTokens, fuel_name))

\* C6 as amended: an identifier is Renewable exactly when it is a text
\* whose lowercased form contains one of hydro, geo, wind, solar, biomass,
\* battery; "Hydro-North" and "Battery_2" are Renewable, and a null, a
\* non-text and an empty identifier are not.
C6_RenewableIffCodeToken ==
    pc = "classified"
      => /\ verdict = "True" <=> ContainsOneOf(CodeTokens, fuel_name)
         /\ fuel_name \in {Str(<<"H", "y", "d", "r", "o", "-", "N", "o", "r", "t", "h">>), Str(<<"B", "a", "t", "t", "e", "r", "y", "_", "2">>)}
              => verdict = "True"
         /\ (fuel_name.k /= "str" \/ fuel_name = Str(<<>>))
              => verdict = "False"

\* C6's case: "Battery_2" has been classified.
C6_Witness ==
    pc = "classified" /\ fuel_name = Str(<<"B", "a", "t", "t", "e", "r", "y", "_", "2">>) /\ verdict = "True"

\* the columns whose lowercased name contains "generation" or "mw"
SubstringGenCols(frame) ==
    SelectSeq(frame.columns,
              LAMBDA c : \/ Contains(<<"g", "e", "n", "e", "r", "a", "t", "i", "o", "n">>, lower(c))
                         \/ Contains(<<"m", "w">>, lower(c)))

\* C7: the quantity column is the first allow-list name present; if none,
\* the first column whose lowercased name contains "generation" or "mw";
\* and only if there is none either, the first numeric column.
C7_GenColumnInThreeStages ==
    pc \in AfterProcess
      => LET raw == read_csv(csv)
         IN  meta.gen_col =
               IF NamedGenCol(raw) /= None THEN NamedGenCol(raw)
               ELSE IF SubstringGenCols(raw) /= <<>>
                    THEN SubstringGenCols(raw)[1]
               ELSE FirstOrNone(NumericCols(raw))

\* the day a date text parses to; 0 for a text that does not parse
ExpectedDay(text) == IF IsIsoDate(text) THEN DateOrdinal(text) ELSE 0

C9_AggregateKeepsEveryRow ==
    (pc \in AfterProcess /\ meta.gen_col /= None)
      => SumSeq([r \in 1..Len(agg.rows) |-> agg.rows[r][2].n])
           = SumSeq([i \in 1..Len(df.rows) |->
                        df.rows[i][ColIndex(df, meta.gen_col)].n])

\* C10: process_generation_df leaves the table it is given unchanged, so
\* the preview shows the values as downloaded, and compute_renewable_share
\* leaves the aggregate's columns unchanged.
C10_InputsAreLeftUnchanged ==
    /\ pc \in AfterProcess => df = read_csv(csv)
    /\ pc = "done" => preview = head(read_csv(csv))
    /\ pc \in AfterProcess => Len(agg.columns) = 2

=============================================================================
